---- MODULE Spec2Model ----
(***************************************************************************)
(* A model of trashmap (src/trashmap.h): a string-to-string, append-only   *)
(* hash map with linear probing and an internal item arena.                *)
(*                                                                         *)
(* 32-bit unsigned values (hashes, slot indices) are kept as a pair of     *)
(* 16-bit limbs <<hi, lo>>, so that every operation on them wraps at 2^32  *)
(* exactly as uint32_t does.                                               *)
(***************************************************************************)
EXTENDS Integers, Sequences, FiniteSets, TLC

VARIABLES
    map,      \* the trashmap_t: [slots, items, slot_count, count, capacity]
    fresh,    \* a second trashmap_t driven by the same calls, re-initialised at clear
    last,     \* history: key bytes -> value most recently set since init/clear
    op,       \* history: the call that produced this state
    pending,  \* history: inserts still covered by the latest reserve(extra)
    hkey,     \* trashmap_hash: the key being hashed
    hpos,     \* trashmap_hash: position of str in the key (1-based)
    hash,     \* trashmap_hash: the local variable hash
    clhs,     \* trashmap_strcmp: lhs of the latest call
    crhs,     \* trashmap_strcmp: rhs of the latest call
    cres      \* trashmap_strcmp: <<>> before the call returns, <<result>> after

vars == <<map, fresh, last, op, pending, hkey, hpos, hash, clhs, crhs, cres>>
mapVars == <<map, fresh, last, op, pending>>
hashVars == <<hkey, hpos, hash>>
cmpVars == <<clhs, crhs, cres>>

----------------------------------------------------------------------------
(* Bounds of the model.                                                    *)

\* trashmap_init is called with 1..MaxInit slots
MaxInit == 2
\* the largest small argument of trashmap_reserve
MaxExtra == 2
\* the ordered driver inserts InitialCapacity + MaxSeqExtra distinct keys
MaxSeqExtra == 1
\* the ordered driver updates only its first MaxSeqUpdate keys
MaxSeqUpdate == 2
\* strings handed to trashmap_hash have at most this many bytes
MaxHashLen == 3
\* strings handed to trashmap_strcmp have at most this many bytes
MaxCmpLen == 3
\* doublings considered when looking for the smallest sufficient capacity
MaxDoublings == 6

----------------------------------------------------------------------------
(* uint32_t arithmetic on limb pairs.                                      *)

W == 256 * 256

U32(n) == <<(n \div W) % W, n % W>>

ToNat(a) == a[1] * W + a[2]

UINT32_MAX == <<W - 1, W - 1>>

Add32(a, b) ==
    LET lo == a[2] + b[2]
        hi == a[1] + b[1] + (lo \div W)
    IN  <<hi % W, lo % W>>

Pow2(n) == 2 ^ n

\* a << n on uint32_t
Shl32(a, n) ==
    IF n >= 16
    THEN <<(a[2] * Pow2(n - 16)) % W, 0>>
    ELSE LET lo == a[2] * Pow2(n)
         IN  <<(a[1] * Pow2(n) + (lo \div W)) % W, lo % W>>

RECURSIVE XorBits(_, _, _)
XorBits(x, y, n) ==
    IF n = 0 THEN 0
    ELSE (IF (x % 2) = (y % 2) THEN 0 ELSE 1) + 2 * XorBits(x \div 2, y \div 2, n - 1)

\* a ^ b for a byte b: only the low 8 bits of a change
Xor32Byte(a, b) == <<a[1], (a[2] \div 256) * 256 + XorBits(a[2] % 256, b, 8)>>

IsU32(a) == a[1] \in 0 .. W - 1 /\ a[2] \in 0 .. W - 1

\* a % m for a small modulus m
Mod32(a, m) == ((a[1] % m) * (W % m) + a[2]) % m

\* a * b on uint32_t (the low 32 bits of the product)
Mul32(a, b) ==
    LET lo == a[2] * b[2]
        mid == ((a[1] * b[2]) % W) + ((a[2] * b[1]) % W) + (lo \div W)
    IN  <<mid % W, lo % W>>

----------------------------------------------------------------------------
(* Strings: a C string is the sequence of its bytes before the NUL.        *)

\* *(s + i - 1): the byte at 1-based position i, 0 at the terminator
CharAt(s, i) == IF i <= Len(s) THEN s[i] ELSE 0

RECURSIVE StringsUpTo(_, _)
StringsUpTo(alphabet, n) ==
    IF n = 0 THEN {<<>>}
    ELSE LET shorter == StringsUpTo(alphabet, n - 1)
         IN  shorter \cup {Append(s, c) : s \in shorter, c \in alphabet}

----------------------------------------------------------------------------
(* trashmap_hash: FNV-1a.                                                  *)

FNV_1A_OFFSET_BASIS == <<33052, 40389>>   \* 2166136261 = 0x811C9DC5

\* (a variant whose last shift is off by one)
HashShiftAddBad(h) ==
    Add32(Add32(Add32(Add32(Add32(h, Shl32(h, 1)), Shl32(h, 4)), Shl32(h, 7)),
                Shl32(h, 8)), Shl32(h, 23))

\* hash + (hash << 1) + (hash << 4) + (hash << 7) + (hash << 8) + (hash << 24)
HashShiftAdd(h) ==
    Add32(Add32(Add32(Add32(Add32(h, Shl32(h, 1)), Shl32(h, 4)), Shl32(h, 7)),
                Shl32(h, 8)), Shl32(h, 24))

\* one iteration of the while loop on byte c
HashStep(h, c) == HashShiftAdd(Xor32Byte(h, c))

\* the while loop from position i on, with hash = h
RECURSIVE HashFrom(_, _, _)
HashFrom(h, s, i) ==
    IF CharAt(s, i) = 0 THEN h
    ELSE LET h1 == HashStep(h, s[i])
         IN  IF IsU32(h1) THEN HashFrom(h1, s, i + 1) ELSE h1

trashmap_hash(key) == HashFrom(FNV_1A_OFFSET_BASIS, key, 1)

----------------------------------------------------------------------------
(* trashmap_strcmp.                                                        *)

RECURSIVE StrcmpFrom(_, _, _)
StrcmpFrom(lhs, rhs, i) ==
    IF CharAt(lhs, i) /= 0 /\ CharAt(rhs, i) /= 0
    THEN LET diff == CharAt(rhs, i) - CharAt(lhs, i)
         IN  IF diff /= 0 THEN diff ELSE StrcmpFrom(lhs, rhs, i + 1)
    ELSE CharAt(rhs, i) - CharAt(lhs, i)

trashmap_strcmp(lhs, rhs) == StrcmpFrom(lhs, rhs, 1)

----------------------------------------------------------------------------
(* The caller's memory.  trashmap stores the pointers it is given and      *)
(* never copies or writes the strings, so a pointer is modelled by its     *)
(* address together with the (permanent) bytes it points to.               *)

Ptr(a, s) == [addr |-> a, str |-> s]

\* "g" at two addresses, and "altarage"/"zinke", whose FNV-1a hashes are both
\* 0xE460D8B6; "g" shares their home slot in tables of 2, 4, 8 and 16 slots
KeyPtrs ==
    { Ptr(2, <<103>>), Ptr(3, <<103>>),
      Ptr(4, <<97, 108, 116, 97, 114, 97, 103, 101>>),
      Ptr(5, <<122, 105, 110, 107, 101>>) }

\* map->capacity = 16;
InitialCapacity == 16

\* the keys of the ordered driver: "k0", "k1", ... (the second byte counts up
\* from '0'), each at an address of its own
SeqCount == InitialCapacity + MaxSeqExtra

SeqPtr(i) == Ptr(100 + i, <<107, 48 + i>>)

SeqPtrs == {SeqPtr(i) : i \in 0 .. SeqCount - 1}

KeyStrings == {p.str : p \in KeyPtrs \cup SeqPtrs}

\* trashmap_hash of every key the callers use, computed once
KeyHashTable == {<<s, trashmap_hash(s)>> : s \in KeyStrings}

KeyHash(s) == (CHOOSE p \in KeyHashTable : p[1] = s)[2]

Values == {"v1", "v2"}

NULL == "NULL"

----------------------------------------------------------------------------
(* trashmap_t and its operations.                                          *)

\* a slot after memset(.., 0xFF, ..)
EmptySlot == [hash |-> UINT32_MAX, index |-> UINT32_MAX]

\* an arena cell that realloc returned and nothing has written yet
Uninit == [key |-> Ptr(-1, <<>>), value |-> NULL]

trashmap_init(count) ==
    [ slots      |-> [i \in 0 .. count - 1 |-> EmptySlot],
      items      |-> <<>>,
      slot_count |-> count,
      count      |-> 0,
      capacity   |-> 0 ]

\* (a variant that releases the arena as well)
trashmap_clear_frees(m) ==
    [m EXCEPT !.count = 0,
              !.slots = [i \in 0 .. m.slot_count - 1 |-> EmptySlot],
              !.items = <<>>,
              !.capacity = 0]

\* (a variant that resets count and forgets the memset)
trashmap_clear_keeps_slots(m) == [m EXCEPT !.count = 0]

trashmap_clear(m) ==
    [m EXCEPT !.count = 0,
              !.slots = [i \in 0 .. m.slot_count - 1 |-> EmptySlot]]

\* the do-while loop of trashmap_get, entered at slot idx
RECURSIVE GetLoop(_, _, _, _, _)
GetLoop(m, key, h, start, idx) ==
    LET bhash == m.slots[idx].hash
        bidx  == m.slots[idx].index
        next  == (idx + 1) % m.slot_count
    IN  IF bidx = UINT32_MAX THEN NULL
        ELSE IF bhash = h /\ trashmap_strcmp(key.str, m.items[ToNat(bidx)].key.str) = 0
        THEN m.items[ToNat(m.slots[idx].index)].value
        ELSE IF next /= start THEN GetLoop(m, key, h, start, next)
        ELSE NULL

trashmap_get(m, key) ==
    LET h     == KeyHash(key.str)
        start == Mod32(h, m.slot_count)
    IN  GetLoop(m, key, h, start, start)

\* (a variant that trusts the stored hash and skips trashmap_strcmp)
RECURSIVE HasLoopHashOnly(_, _, _, _, _)
HasLoopHashOnly(m, key, h, start, idx) ==
    LET bhash == m.slots[idx].hash
        bidx  == m.slots[idx].index
        next  == (idx + 1) % m.slot_count
    IN  IF bidx = UINT32_MAX THEN FALSE
        ELSE IF bhash = h THEN TRUE
        ELSE IF next /= start THEN HasLoopHashOnly(m, key, h, start, next)
        ELSE FALSE

\* the do-while loop of trashmap_has, entered at slot idx
RECURSIVE HasLoop(_, _, _, _, _)
HasLoop(m, key, h, start, idx) ==
    LET bhash == m.slots[idx].hash
        bidx  == m.slots[idx].index
        next  == (idx + 1) % m.slot_count
    IN  IF bidx = UINT32_MAX THEN FALSE
        ELSE IF bhash = h /\ trashmap_strcmp(key.str, m.items[ToNat(bidx)].key.str) = 0
        THEN TRUE
        ELSE IF next /= start THEN HasLoop(m, key, h, start, next)
        ELSE FALSE

trashmap_has(m, key) ==
    LET h     == KeyHash(key.str)
        start == Mod32(h, m.slot_count)
    IN  HasLoop(m, key, h, start, start)

\* (a variant without the loop: the capacity is never doubled)
DoubleCapacityNone(capacity, need) == capacity

\* (a variant with an if in place of the while: one doubling at most)
DoubleCapacityOnce(capacity, need) ==
    IF need > capacity THEN capacity * 2 ELSE capacity

\* while (map->count + extra > map->capacity) map->capacity *= 2;
RECURSIVE DoubleCapacity(_, _)
DoubleCapacity(capacity, need) ==
    IF need > capacity THEN DoubleCapacity(capacity * 2, need) ELSE capacity

\* (a variant that allocates afresh and copies nothing)
ReallocFresh(items, old_capacity, new_capacity) ==
    [i \in 0 .. new_capacity - 1 |-> Uninit]

\* realloc: the old cells keep their contents, the new ones hold nothing yet
Realloc(items, old_capacity, new_capacity) ==
    [i \in 0 .. new_capacity - 1 |-> IF i < old_capacity THEN items[i] ELSE Uninit]

\* the first half of trashmap_reserve: the item arena
ReserveArena(m, extra) ==
    IF m.count + extra > m.capacity
    THEN LET c0 == IF m.capacity = 0 THEN InitialCapacity ELSE m.capacity
             c1 == DoubleCapacity(c0, m.count + extra)
         IN  [m EXCEPT !.capacity = c1, !.items = Realloc(m.items, m.capacity, c1)]
    ELSE m

\* the inner do-while loop of the rehash: the first empty slot from idx on
RECURSIVE RehashProbe(_, _, _, _, _)
RehashProbe(new_slots, new_slot_count, slot, start, new_idx) ==
    LET next == (new_idx + 1) % new_slot_count
    IN  IF new_slots[new_idx].index = UINT32_MAX
        THEN [new_slots EXCEPT ![new_idx] = slot]
        ELSE IF next /= start
        THEN RehashProbe(new_slots, new_slot_count, slot, start, next)
        ELSE new_slots

\* (a variant that copies the old slots to the same places of the new array)
RehashFromSamePlace(m, new_slots, new_slot_count, map_idx) ==
    [i \in 0 .. new_slot_count - 1 |->
        IF i < m.slot_count THEN m.slots[i] ELSE EmptySlot]

\* the for loop of the rehash, from map_idx on
RECURSIVE RehashFrom(_, _, _, _)
RehashFrom(m, new_slots, new_slot_count, map_idx) ==
    IF map_idx >= m.slot_count THEN new_slots
    ELSE IF m.slots[map_idx].index = UINT32_MAX
    THEN RehashFrom(m, new_slots, new_slot_count, map_idx + 1)
    ELSE LET start == Mod32(m.slots[map_idx].hash, new_slot_count)
         IN  RehashFrom(m,
                        RehashProbe(new_slots, new_slot_count, m.slots[map_idx],
                                    start, start),
                        new_slot_count, map_idx + 1)

\* (a variant that never grows the slot table)
ReserveSlotsNoGrow(m, extra) == m

\* (a variant that lets the table fill up before it doubles)
ReserveSlotsNoLoadFactor(m, extra) ==
    IF m.count + extra > m.slot_count
    THEN LET new_slot_count == m.slot_count * 2
             new_slots == [i \in 0 .. new_slot_count - 1 |-> EmptySlot]
         IN  [m EXCEPT !.slots = RehashFrom(m, new_slots, new_slot_count, 0),
                       !.slot_count = new_slot_count]
    ELSE m

\* (a variant that installs the new slot array without copying the old slots)
ReserveSlotsNoCopy(m, extra) ==
    IF m.count + extra > (m.slot_count * 3) \div 4
    THEN LET new_slot_count == m.slot_count * 2
             new_slots == [i \in 0 .. new_slot_count - 1 |-> EmptySlot]
         IN  [m EXCEPT !.slots = new_slots, !.slot_count = new_slot_count]
    ELSE m

\* the second half of trashmap_reserve: the slot table
ReserveSlots(m, extra) ==
    IF m.count + extra > (m.slot_count * 3) \div 4
    THEN LET new_slot_count == m.slot_count * 2
             new_slots == [i \in 0 .. new_slot_count - 1 |-> EmptySlot]
         IN  [m EXCEPT !.slots = RehashFrom(m, new_slots, new_slot_count, 0),
                       !.slot_count = new_slot_count]
    ELSE m

trashmap_reserve(m, extra) == ReserveSlots(ReserveArena(m, extra), extra)

\* (a variant that stores the home slot in place of the hash)
SetInsertReducedHash(m, key, value, h, idx) ==
    [m EXCEPT !.items[m.count] = [key |-> key, value |-> value],
              !.slots[idx] = [hash |-> U32(Mod32(h, m.slot_count)), index |-> U32(m.count)],
              !.count = m.count + 1]

\* (a variant that increments count before it writes the item)
SetInsertCountFirst(m, key, value, h, idx) ==
    [m EXCEPT !.items[m.count + 1] = [key |-> key, value |-> value],
              !.slots[idx] = [hash |-> h, index |-> U32(m.count)],
              !.count = m.count + 1]

\* (a variant that increments count before it fills the slot)
SetInsertIndexOne(m, key, value, h, idx) ==
    [m EXCEPT !.items[m.count] = [key |-> key, value |-> value],
              !.slots[idx] = [hash |-> h, index |-> U32(m.count + 1)],
              !.count = m.count + 1]

\* the branch of trashmap_set that appends a new item and fills slot idx
SetInsert(m, key, value, h, idx) ==
    [m EXCEPT !.items[m.count] = [key |-> key, value |-> value],
              !.slots[idx] = [hash |-> h, index |-> U32(m.count)],
              !.count = m.count + 1]

\* (a variant that finds the key and leaves its value as it was)
SetUpdateNoWrite(m, item_idx, value) == m

\* the branch of trashmap_set that overwrites the value of item item_idx
SetUpdate(m, item_idx, value) ==
    [m EXCEPT !.items[ToNat(item_idx)].value = value]

\* (a variant whose update branch stores the key pointer it was passed as well)
RECURSIVE SetLoopOverwritesKey(_, _, _, _, _, _)
SetLoopOverwritesKey(m, key, value, h, start, idx) ==
    LET item_idx  == m.slots[idx].index
        item_hash == m.slots[idx].hash
        next      == (idx + 1) % m.slot_count
    IN  IF item_idx = UINT32_MAX
        THEN [asserted |-> FALSE, map |-> SetInsert(m, key, value, h, idx)]
        ELSE IF item_hash = h
                /\ trashmap_strcmp(key.str, m.items[ToNat(item_idx)].key.str) = 0
        THEN [asserted |-> FALSE,
              map |-> [m EXCEPT !.items[ToNat(item_idx)] = [key |-> key, value |-> value]]]
        ELSE IF next /= start
        THEN SetLoopOverwritesKey(m, key, value, h, start, next)
        ELSE [asserted |-> TRUE, map |-> m]

\* (a variant that compares the key pointers, not the bytes they point to)
RECURSIVE SetLoopPointerCompare(_, _, _, _, _, _)
SetLoopPointerCompare(m, key, value, h, start, idx) ==
    LET item_idx  == m.slots[idx].index
        item_hash == m.slots[idx].hash
        next      == (idx + 1) % m.slot_count
    IN  IF item_idx = UINT32_MAX
        THEN [asserted |-> FALSE, map |-> SetInsert(m, key, value, h, idx)]
        ELSE IF item_hash = h /\ key.addr = m.items[ToNat(item_idx)].key.addr
        THEN [asserted |-> FALSE, map |-> SetUpdate(m, item_idx, value)]
        ELSE IF next /= start
        THEN SetLoopPointerCompare(m, key, value, h, start, next)
        ELSE [asserted |-> TRUE, map |-> m]

\* the do-while loop of trashmap_set, entered at slot idx; asserted is TRUE when
\* the loop wraps around and TRASHMAP_ASSERT(0 && "corrupted hash map") is reached
RECURSIVE SetLoop(_, _, _, _, _, _)
SetLoop(m, key, value, h, start, idx) ==
    LET item_idx  == m.slots[idx].index
        item_hash == m.slots[idx].hash
        next      == (idx + 1) % m.slot_count
    IN  IF item_idx = UINT32_MAX
        THEN [asserted |-> FALSE, map |-> SetInsert(m, key, value, h, idx)]
        ELSE IF item_hash = h
                /\ trashmap_strcmp(key.str, m.items[ToNat(item_idx)].key.str) = 0
        THEN [asserted |-> FALSE, map |-> SetUpdate(m, item_idx, value)]
        ELSE IF next /= start THEN SetLoop(m, key, value, h, start, next)
        ELSE [asserted |-> TRUE, map |-> m]

trashmap_set(m, key, value) ==
    LET m1    == trashmap_reserve(m, 1)
        h     == KeyHash(key.str)
        start == Mod32(h, m1.slot_count)
    IN  SetLoop(m1, key, value, h, start, start)

----------------------------------------------------------------------------
(* The calls a program makes on one trashmap_t, in any order.              *)

NoKey == Ptr(0, <<>>)

\* a call: its name, its key (for set), whether the key was new to the map, and
\* whether the call before it was a set of the same key
Call(name, key, new, again) ==
    [name |-> name, key |-> key, new |-> new, again |-> again]

\* the arguments trashmap_reserve is called with
Extras == 0 .. MaxExtra

IdleHash == hkey = <<>> /\ hpos = 1 /\ hash = FNV_1A_OFFSET_BASIS
IdleCmp == clhs = <<>> /\ crhs = <<>> /\ cres = <<>>

Init ==
    /\ \E n \in 1 .. MaxInit : map = trashmap_init(n)
    /\ fresh = map
    /\ last = [s \in KeyStrings |-> NULL]
    /\ op = Call("init", NoKey, FALSE, FALSE)
    /\ pending = 0
    /\ IdleHash
    /\ IdleCmp

\* trashmap_deinit(&map); trashmap_init(&map, n);
Reinit(n) ==
    /\ map' = trashmap_init(n)
    /\ fresh' = trashmap_init(n)
    /\ last' = [s \in KeyStrings |-> NULL]
    /\ op' = Call("init", NoKey, FALSE, FALSE)
    /\ pending' = 0
    /\ UNCHANGED <<hashVars, cmpVars>>

\* trashmap_clear(&map);
Clear ==
    /\ map' = trashmap_clear(map)
    /\ fresh' = trashmap_init(map.slot_count)
    /\ last' = [s \in KeyStrings |-> NULL]
    /\ op' = Call("clear", NoKey, FALSE, FALSE)
    /\ pending' = 0
    /\ UNCHANGED <<hashVars, cmpVars>>

\* trashmap_reserve(&map, extra);
Reserve(extra) ==
    /\ map' = trashmap_reserve(map, extra)
    /\ fresh' = trashmap_reserve(fresh, extra)
    /\ op' = Call("reserve", NoKey, FALSE, FALSE)
    /\ pending' = extra
    /\ UNCHANGED <<last, hashVars, cmpVars>>

\* trashmap_set(&map, key, value);
Set(key, value) ==
    LET r   == trashmap_set(map, key, value)
        new == last[key.str] = NULL
    IN  /\ map' = r.map
        /\ fresh' = trashmap_set(fresh, key, value).map
        /\ last' = [last EXCEPT ![key.str] = value]
        /\ op' = Call(IF r.asserted THEN "assert" ELSE "set", key, new,
                      op.name = "set" /\ op.key.str = key.str)
        /\ pending' = IF new /\ pending > 0 THEN pending - 1 ELSE 0
        /\ UNCHANGED <<hashVars, cmpVars>>

Next ==
    \/ \E n \in 1 .. MaxInit : Reinit(n)
    \/ Clear
    \/ \E extra \in Extras : Reserve(extra)
    \/ \E key \in KeyPtrs, value \in Values : Set(key, value)

Spec == Init /\ [][Next]_vars

----------------------------------------------------------------------------
(* The ordered driver: a program that inserts "k0", "k1", ... in this      *)
(* order (as a loop filling the map does) and, in between, overwrites the  *)
(* values of the first keys it inserted and reserves; once full it clears  *)
(* the map and fills it again.                                             *)

SeqInsert ==
    /\ map.count < SeqCount
    /\ Set(SeqPtr(map.count), "v1")

SeqUpdate(i, value) ==
    /\ i < map.count
    /\ Set(SeqPtr(i), value)

\* the ordered driver also reserves for more items than the first arena holds
SeqExtras == Extras \cup {InitialCapacity + 1}

\* trashmap_reserve(&map, extra); the ordered driver keeps no count of the
\* inserts the call is meant to cover
SeqReserve(extra) ==
    /\ map' = trashmap_reserve(map, extra)
    /\ fresh' = trashmap_reserve(fresh, extra)
    /\ op' = Call("reserve", NoKey, FALSE, FALSE)
    /\ UNCHANGED <<last, pending, hashVars, cmpVars>>

\* trashmap_clear(&map); once the driver has inserted all its keys, to fill the
\* map again
SeqClear ==
    /\ map.count = SeqCount
    /\ Clear

NextSeq ==
    \/ SeqInsert
    \/ \E i \in 0 .. MaxSeqUpdate - 1, value \in Values : SeqUpdate(i, value)
    \/ \E extra \in SeqExtras : SeqReserve(extra)
    \/ SeqClear

SpecSeq == Init /\ [][NextSeq]_vars

----------------------------------------------------------------------------
(* trashmap_hash, one iteration of its while loop per step.                *)

\* the bytes of the strings that are hashed: 'a', 'b', and the extremes
HashAlphabet == {1, 97, 98, 255}

IdleMap ==
    /\ map = trashmap_init(1)
    /\ fresh = map
    /\ last = [s \in KeyStrings |-> NULL]
    /\ op = Call("init", NoKey, FALSE, FALSE)
    /\ pending = 0

InitHash ==
    /\ IdleMap
    /\ IdleCmp
    /\ hkey \in StringsUpTo(HashAlphabet, MaxHashLen)
    /\ hpos = 1
    /\ hash = FNV_1A_OFFSET_BASIS

\* while (*str) { hash = hash ^ *(str++); hash = hash + (hash << 1) + ...; }
HashLoop ==
    /\ CharAt(hkey, hpos) /= 0
    /\ hash' = HashStep(hash, hkey[hpos])
    /\ hpos' = hpos + 1
    /\ UNCHANGED <<hkey, mapVars, cmpVars>>

NextHash == HashLoop

SpecHash == InitHash /\ [][NextHash]_vars

----------------------------------------------------------------------------
(* trashmap_strcmp, one call per step.                                     *)

\* the bytes of the strings that are compared: 'a' .. 'd'
CmpAlphabet == {97, 98, 99, 100}

CmpStrings == StringsUpTo(CmpAlphabet, MaxCmpLen)

InitCmp ==
    /\ IdleMap
    /\ IdleHash
    /\ clhs \in CmpStrings
    /\ crhs \in CmpStrings
    /\ cres = <<>>

\* trashmap_strcmp(lhs, rhs), from the call to its return
Strcmp ==
    /\ cres = <<>>
    /\ cres' = <<trashmap_strcmp(clhs, crhs)>>
    /\ UNCHANGED <<clhs, crhs, mapVars, hashVars>>

NextCmp == Strcmp

SpecCmp == InitCmp /\ [][NextCmp]_vars

----------------------------------------------------------------------------
(* Properties.                                                             *)

Altarage == Ptr(4, <<97, 108, 116, 97, 114, 97, 103, 101>>)
Zinke == Ptr(5, <<122, 105, 110, 107, 101>>)

\* the load-factor ceiling of a table of n slots
Ceiling(n) == (n * 3) \div 4

\* every key pointer a caller passes
AllPtrs == KeyPtrs \cup SeqPtrs

\* the keys set since the last init or clear
SetKeys == {k \in AllPtrs : last[k.str] /= NULL}

\* C1: after init or clear and any sequence of set and reserve calls, get(k)
\* returns the value of the most recent set(k, .) for every key k set since then.
C1_GetReturnsLastSet ==
    \A k \in SetKeys : trashmap_get(map, k) = last[k.str]

\* three keys are stored in an arena grown from nothing and in a slot table that
\* has been rehashed up to eight slots, and one of them has been overwritten
C1_Witness ==
    /\ map.count = 3
    /\ map.capacity = InitialCapacity
    /\ map.slot_count = 8
    /\ op.name = "set" /\ ~op.new
    /\ trashmap_get(map, op.key) = "v2"
    /\ \E k \in KeyPtrs : trashmap_get(map, k) = "v1"

\* C2: has(k) is true exactly for the keys set since the last init or clear, and
\* get(k) is NULL for every key not set since then, whatever its hash collides with.
C2_HasExactlySetKeys ==
    \A k \in AllPtrs :
        /\ trashmap_has(map, k) = (last[k.str] /= NULL)
        /\ last[k.str] = NULL => trashmap_get(map, k) = NULL

\* "altarage" is stored and "zinke", which has the same 32-bit hash, is not; its
\* probe starts at the slot of "altarage" and still reports not found
C2_Witness ==
    /\ last[Altarage.str] /= NULL
    /\ last[Zinke.str] = NULL
    /\ KeyHash(Altarage.str) = KeyHash(Zinke.str)
    /\ map.slots[Mod32(KeyHash(Zinke.str), map.slot_count)].index /= UINT32_MAX
    /\ map.slots[Mod32(KeyHash(Zinke.str), map.slot_count)].hash = KeyHash(Zinke.str)
    /\ ~trashmap_has(map, Zinke)
    /\ trashmap_get(map, Zinke) = NULL

\* C3: set(k, v1) directly followed by set(k, v2) leaves count as the first set
\* left it, and get(k) then returns v2.
C3_UpdateKeepsCount ==
    [][(op.name = "set" /\ op'.name = "set" /\ op'.key.str = op.key.str)
          => /\ map'.count = map.count
             /\ trashmap_get(map', op'.key) = last'[op'.key.str]]_vars

\* "zinke" has been set twice in a row and now maps to v2, in a table that also
\* holds "altarage", which has the same hash, and a third key
C3_Witness ==
    /\ op.name = "set" /\ op.again
    /\ op.key = Zinke
    /\ last[Zinke.str] = "v2"
    /\ last[Altarage.str] /= NULL
    /\ map.count = 3

\* C4: after any sequence of init(n >= 1), set, reserve and clear,
\* count <= slot_count * 3 / 4.
C4_LoadFactor == map.count <= Ceiling(map.slot_count)

\* the table is exactly at its ceiling: three keys in four slots
C4_Witness == map.count = 3 /\ map.slot_count = 4 /\ op.name = "set"

\* C5: after reserve(extra), the next extra sets of keys not yet in the table
\* change neither capacity nor slot_count.
C5_ReserveCoversInserts ==
    [][(pending > 0 /\ op'.name = "set" /\ op'.new)
          => /\ map'.capacity = map.capacity
             /\ map'.slot_count = map.slot_count]_vars

\* the table as the calls since the last init or clear see it
Contents(m) ==
    [ count |-> m.count,
      slot_count |-> m.slot_count,
      slots |-> m.slots,
      items |-> [i \in 0 .. m.count - 1 |-> m.items[i]],
      get |-> [k \in AllPtrs |-> trashmap_get(m, k)],
      has |-> [k \in AllPtrs |-> trashmap_has(m, k)] ]

\* C6: after clear, count is 0 and no key is found; the calls that follow behave
\* as on a table freshly initialised with the same slot_count.
C6_ClearSemantics ==
    /\ op.name = "clear" =>
          /\ map.count = 0
          /\ \A k \in AllPtrs : ~trashmap_has(map, k) /\ trashmap_get(map, k) = NULL
    /\ Contents(map) = Contents(fresh)

\* two keys have been set after a clear of a table that held three: the arena
\* retained from before the clear still holds an abandoned item past count, where
\* the fresh table's arena has never been written
C6_Witness ==
    /\ op.name = "set"
    /\ map.count = 2
    /\ map.items[2].key.addr > 0
    /\ fresh.count = 2
    /\ fresh.items[2] = Uninit

\* C7: a set of a key that is already present leaves capacity unchanged.
C7_UpdateNeverGrowsArena ==
    [][(op'.name = "set" /\ ~op'.new) => map'.capacity = map.capacity]_vars

\* the order of two strings as libc strcmp defines it: -1, 0 or 1
RECURSIVE StdOrder(_, _, _)
StdOrder(lhs, rhs, i) ==
    IF CharAt(lhs, i) < CharAt(rhs, i) THEN -1
    ELSE IF CharAt(lhs, i) > CharAt(rhs, i) THEN 1
    ELSE IF CharAt(lhs, i) = 0 THEN 0
    ELSE StdOrder(lhs, rhs, i + 1)

Sign(n) == IF n < 0 THEN -1 ELSE IF n > 0 THEN 1 ELSE 0

\* C8: trashmap_strcmp agrees in sign with standard byte-string comparison:
\* 0 iff equal, negative when lhs orders before rhs, positive otherwise.
C8_StrcmpAgreesWithStandard ==
    cres /= <<>> => Sign(cres[1]) = StdOrder(clhs, crhs, 1)

FNV_PRIME == <<256, 403>>   \* 16777619 = 0x01000193

\* reference FNV-1a: hash := ((hash XOR byte) * 16777619) mod 2^32, byte by byte
RECURSIVE FNV1a(_)
FNV1a(s) ==
    IF s = <<>> THEN FNV_1A_OFFSET_BASIS
    ELSE Mul32(Xor32Byte(FNV1a(SubSeq(s, 1, Len(s) - 1)), s[Len(s)]), FNV_PRIME)

\* reference FNV-1a values: "" -> 811C9DC5, "a" -> E40C292C, "b" -> E70C2DE5,
\* "ab" -> 4D2505CA
TestVectors ==
    { <<(<<>>), <<33052, 40389>>>>, <<(<<97>>), <<58380, 10540>>>>,
      <<(<<98>>), <<59148, 11749>>>>, <<(<<97, 98>>), <<19749, 1482>>>> }

\* C9: trashmap_hash is 32-bit FNV-1a: the hash after each byte is the reference
\* value of the bytes read so far, the shift-and-add expression equals the
\* multiplication by 16777619 modulo 2^32, and the final value is a function of
\* the key's bytes.
C9_HashIsFNV1a ==
    /\ hash = FNV1a(SubSeq(hkey, 1, hpos - 1))
    /\ HashShiftAdd(hash) = Mul32(hash, FNV_PRIME)
    /\ CharAt(hkey, hpos) = 0 =>
          /\ hash = trashmap_hash(hkey)
          /\ \A t \in TestVectors : t[1] = hkey => hash = t[2]

\* the loop has consumed all three bytes of a key that ends in byte 255
C9_Witness ==
    /\ Len(hkey) = 3
    /\ hpos = 4
    /\ hkey[3] = 255
    /\ hash /= FNV_1A_OFFSET_BASIS

\* C10: reserve(extra), whatever it grows, leaves count, every item below count
\* and the result of get and has for every key unchanged.
C10_ReservePreserves ==
    [][op'.name = "reserve"
          => /\ map'.count = map.count
             /\ \A i \in 0 .. map.count - 1 : map'.items[i] = map.items[i]
             /\ \A k \in AllPtrs :
                   /\ trashmap_get(map', k) = trashmap_get(map, k)
                   /\ trashmap_has(map', k) = trashmap_has(map, k)]_vars

\* a reserve has returned on a table of three keys whose arena has been doubled
\* around them and whose slot table is in its rehashed, 16-slot form
C10_Witness ==
    /\ op.name = "reserve"
    /\ map.count = 3
    /\ map.capacity = 2 * InitialCapacity
    /\ map.slot_count = 16
    /\ \A i \in 0 .. 2 : trashmap_has(map, SeqPtr(i))

\* C11: clear leaves slot_count and capacity (and the arena) exactly as they
\* were; only count is reset to 0 and every slot is marked empty.
C11_ClearRetainsAllocations ==
    [][op'.name = "clear"
          => /\ map'.slot_count = map.slot_count
             /\ map'.capacity = map.capacity
             /\ map'.items = map.items
             /\ map'.count = 0
             /\ \A i \in 0 .. map'.slot_count - 1 : map'.slots[i] = EmptySlot]_vars

\* a clear has returned on a table that had grown to eight slots: the arena of
\* 16 cells is still allocated and still holds the first item written to it
C11_Witness ==
    /\ op.name = "clear"
    /\ map.count = 0
    /\ map.slot_count = 8
    /\ map.capacity = InitialCapacity
    /\ map.items[0].key.addr > 0

\* the slots of m that hold nothing
EmptySlots(m) == {i \in 0 .. m.slot_count - 1 : m.slots[i].index = UINT32_MAX}

\* C12: the "corrupted hash map" assertion of set is never reached: after the
\* reserve(1) that set begins with, the slot table has an empty slot.
C12_AssertUnreachable ==
    /\ op.name /= "assert"
    /\ EmptySlots(trashmap_reserve(map, 1)) /= {}

\* a set has just filled a table of four slots up to its ceiling of three: one
\* slot is left empty, and the next set doubles the table before it probes
C12_Witness ==
    /\ op.name = "set" /\ op.new
    /\ map.count = 3
    /\ map.slot_count = 4
    /\ Cardinality(EmptySlots(map)) = 1
    /\ trashmap_reserve(map, 1).slot_count = 8

\* C13: every non-empty slot holds an item index below count, and every index
\* below count is held by exactly one slot.
C13_SlotIndicesBijective ==
    /\ \A i \in 0 .. map.slot_count - 1 :
          map.slots[i].index /= UINT32_MAX => ToNat(map.slots[i].index) < map.count
    /\ \A n \in 0 .. map.count - 1 :
          Cardinality({i \in 0 .. map.slot_count - 1 : map.slots[i].index = U32(n)}) = 1
    /\ map.slot_count - Cardinality(EmptySlots(map)) = map.count

\* three items sit in an eight-slot table after a rehash moved them, and the
\* item written last is not in the slot after the one written first
C13_Witness ==
    /\ map.count = 3
    /\ map.slot_count = 8
    /\ op.name = "reserve"
    /\ \E i, j \in 0 .. 7 :
          /\ map.slots[i].index = U32(0)
          /\ map.slots[j].index = U32(2)
          /\ j < i

\* C14: count <= capacity in every reachable state, and a set that appends an
\* item writes arena cell count (the count before the call), which lies inside
\* the arena the call leaves allocated.
C14_CountWithinCapacity ==
    [][/\ map.count <= map.capacity
       /\ map'.count <= map'.capacity
       /\ (op'.name = "set" /\ op'.new)
             => /\ map.count < map'.capacity
                /\ map.count \in DOMAIN map'.items
                /\ map'.items[map.count].key = op'.key]_vars

\* the insert that found count = capacity = 16 has written cell 16 of an arena
\* of 32 cells
C14_Witness ==
    /\ op.name = "set" /\ op.new
    /\ map.count = InitialCapacity + 1
    /\ map.capacity = 2 * InitialCapacity
    /\ map.items[InitialCapacity].key = SeqPtr(InitialCapacity)

\* the capacities c0, 2 c0, 4 c0, ...
Doublings(c0) == {c0 * (2 ^ k) : k \in 0 .. MaxDoublings}

\* the capacity the growth rule prescribes for a table of the given count and
\* capacity when extra more items are announced
RuleCapacity(count, capacity, extra) ==
    IF count + extra <= capacity THEN capacity
    ELSE LET c0   == IF capacity = 0 THEN InitialCapacity ELSE capacity
             fits == {c \in Doublings(c0) : c >= count + extra}
         IN  CHOOSE c \in fits : \A d \in fits : c <= d

\* C15: reserve(extra) leaves capacity unchanged when count + extra <= capacity
\* and otherwise makes it the smallest c0 * 2^k >= count + extra (c0 the old
\* capacity, or 16 when that is 0); count + extra <= capacity holds afterwards.
C15_ArenaGrowthRule ==
    \A extra \in SeqExtras :
        LET r == trashmap_reserve(map, extra)
        IN  /\ r.capacity = RuleCapacity(map.count, map.capacity, extra)
            /\ r.count + extra <= r.capacity
            /\ DOMAIN r.items = 0 .. r.capacity - 1

\* a reserve has returned with an arena of 64 cells around 16 items: from 16
\* cells that takes two doublings, from 32 one
C15_Witness ==
    /\ op.name = "reserve"
    /\ map.count = InitialCapacity
    /\ map.capacity = 4 * InitialCapacity

\* C16: a set of a key that is not in the table increases count by one, stores
\* the key and the value in arena cell old count and leaves the cells below it
\* unchanged; cell i holds the i-th key inserted since the last init or clear.
C16_InsertAppends ==
    [][(op'.name = "set" /\ op'.new)
          => /\ map'.count = map.count + 1
             /\ map'.items[map.count] = [key |-> op'.key, value |-> last'[op'.key.str]]
             /\ \A i \in 0 .. map.count - 1 : map'.items[i] = map.items[i]
             /\ \A i \in 0 .. map'.count - 1 : map'.items[i].key = SeqPtr(i)]_vars

\* the 17th key has been appended to an arena that was reallocated for it, with
\* the first key, since overwritten with v2, still in cell 0
C16_Witness ==
    /\ op.name = "set" /\ op.new
    /\ op.key = SeqPtr(InitialCapacity)
    /\ map.count = InitialCapacity + 1
    /\ map.items[0] = [key |-> SeqPtr(0), value |-> "v2"]

\* C17: set(k, v) leaves get and has of every key with other bytes than k
\* (stored or not) as they were, and when k is present it leaves count, every
\* stored key pointer and every other item as they were: only the value of k's
\* item is written.
C17_SetAffectsOnlyItsKey ==
    [][op'.name = "set"
          => /\ \A k2 \in SetKeys \cup KeyPtrs :
                   k2.str /= op'.key.str
                      => /\ trashmap_get(map', k2) = trashmap_get(map, k2)
                         /\ trashmap_has(map', k2) = trashmap_has(map, k2)
             /\ ~op'.new
                   => /\ map'.count = map.count
                      /\ \A i \in 0 .. map.count - 1 :
                            /\ map'.items[i].key = map.items[i].key
                            /\ map.items[i].key.str /= op'.key.str
                                  => map'.items[i] = map.items[i]]_vars

\* "g" was inserted through the pointer at address 2 and has then been set
\* through the pointer at address 3: the item still holds the first pointer
C17_Witness ==
    /\ op.name = "set" /\ ~op.new
    /\ op.key = Ptr(3, <<103>>)
    /\ map.count = 3
    /\ \E i \in 0 .. 2 : map.items[i] = [key |-> Ptr(2, <<103>>), value |-> "v2"]
    /\ \E i \in 0 .. 2 : map.items[i] = [key |-> Zinke, value |-> "v1"]

\* the slots on the cyclic path from slot a to slot b
Path(a, b, n) == {(a + d) % n : d \in 0 .. ((b - a + n) % n)}

\* C18: for every non-empty slot p with stored hash h, every slot on the cyclic
\* path from h mod slot_count to p is non-empty.
C18_ProbeChainsNoGaps ==
    \A p \in 0 .. map.slot_count - 1 :
        map.slots[p].index /= UINT32_MAX
           => \A q \in Path(Mod32(map.slots[p].hash, map.slot_count), p, map.slot_count) :
                 map.slots[q].index /= UINT32_MAX

\* a reserve has rehashed three keys with the same home slot 6 into eight
\* slots: their chain runs over the end of the array into slot 0
C18_Witness ==
    /\ op.name = "reserve"
    /\ map.count = 3
    /\ map.slot_count = 8
    /\ map.slots[0].index /= UINT32_MAX
    /\ Mod32(map.slots[0].hash, 8) = 6
    /\ \A q \in Path(6, 0, 8) : map.slots[q].index /= UINT32_MAX

\* C19: the hash stored in each non-empty slot is trashmap_hash of the key of
\* the item the slot refers to.
C19_StoredHashIsKeyHash ==
    \A i \in 0 .. map.slot_count - 1 :
        map.slots[i].index /= UINT32_MAX
           => map.slots[i].hash = KeyHash(map.items[ToNat(map.slots[i].index)].key.str)

\* after a rehash into eight slots two slots carry the same hash and refer to
\* two items, "altarage" and "zinke"
C19_Witness ==
    /\ op.name = "reserve"
    /\ map.slot_count = 8
    /\ \E i, j \in 0 .. 7 :
          /\ i /= j
          /\ map.slots[i].index /= UINT32_MAX
          /\ map.slots[j].index /= UINT32_MAX
          /\ map.slots[i].hash = map.slots[j].hash
          /\ map.items[ToNat(map.slots[i].index)].key = Altarage
          /\ map.items[ToNat(map.slots[j].index)].key = Zinke

\* C20: the items below count have pairwise different key bytes.
C20_DistinctKeys ==
    \A i, j \in 0 .. map.count - 1 :
        i /= j => map.items[i].key.str /= map.items[j].key.str

\* "zinke" has been set a second time, by a call that first doubled the table
\* to eight slots and then found it behind "g" and "altarage" in its chain
C20_Witness ==
    /\ op.name = "set" /\ ~op.new
    /\ op.key = Zinke
    /\ map.count = 3
    /\ map.slot_count = 8
    /\ map.slots[6].index /= UINT32_MAX
    /\ map.items[ToNat(map.slots[6].index)].key.str = <<103>>
    /\ map.items[ToNat(map.slots[0].index)].key = Zinke

====
